---- MODULE Spec2Model ----
(***************************************************************************)
(* Library backend (biblioteca): the express router of src/routes.ts, the  *)
(* token gate in front of the entity routes, and the student controller    *)
(* (AlunoController) with its result-code -> HTTP response mapping.        *)
(*                                                                         *)
(* src/src/routes.ts holds the router (lines 1-34), two revisions of       *)
(* controller/AlunoController.ts (lines 35-236, called build "A" here, and *)
(* lines 238-402, build "B") and model/Usuario.ts (lines 403-500).         *)
(* util/Auth.ts, model/Aluno.ts and the Livro/Emprestimo controllers are   *)
(* not part of the sources; they are modelled from the specification.      *)
(***************************************************************************)
EXTENDS Integers, Sequences, FiniteSets, TLC

VARIABLES
    build,      \* which revision of AlunoController.ts is deployed: "A" or "B"
    expiresIn,  \* configured token lifetime; 0 = no expiry configured
    now,        \* the server clock
    issued,     \* ghost: the (token, subject) pairs handed out by login
    alunos,     \* the student table of the external store (set of ids)
    reqs        \* connection -> the request being served on it

vars == <<build, expiresIn, now, issued, alunos, reqs>>

----------------------------------------------------------------------------
(* Bounds of the model *)

MaxClock == 2
TokenTTL == 1
MaxIssued == 1

----------------------------------------------------------------------------
(* Routing table *)

\* a route of SERVER_ROUTES -> the handlers registered for it, in order

\* a LOGIN that sits behind the token check
rotasPublicasLoginProtegido ==
    [ ROOT  |-> <<"rotaPadrao">>,
      LOGIN |-> <<"Auth.verifyToken", "Auth.validacaoUsuario">> ]

\* router.get('/') and router.post(SERVER_ROUTES.LOGIN)
rotasPublicas ==
    [ ROOT  |-> <<"rotaPadrao">>,
      LOGIN |-> <<"Auth.validacaoUsuario">> ]

\* the list route registered without the token check
rotasAlunoListarSemAuth ==
    [ LISTAR_ALUNOS   |-> <<"AlunoController.todos">>,
      NOVO_ALUNO      |-> <<"Auth.verifyToken", "AlunoController.cadastrar">>,
      REMOVER_ALUNO   |-> <<"Auth.verifyToken", "AlunoController.remover">>,
      ATUALIZAR_ALUNO |-> <<"Auth.verifyToken", "AlunoController.atualizar">> ]

\* CRUD Aluno
rotasAluno ==
    [ LISTAR_ALUNOS   |-> <<"Auth.verifyToken", "AlunoController.todos">>,
      NOVO_ALUNO      |-> <<"Auth.verifyToken", "AlunoController.cadastrar">>,
      REMOVER_ALUNO   |-> <<"Auth.verifyToken", "AlunoController.remover">>,
      ATUALIZAR_ALUNO |-> <<"Auth.verifyToken", "AlunoController.atualizar">> ]

\* CRUD Livro
rotasLivro ==
    [ LISTAR_LIVROS   |-> <<"Auth.verifyToken", "LivroController.todos">>,
      NOVO_LIVRO      |-> <<"Auth.verifyToken", "LivroController.cadastrar">>,
      REMOVER_LIVRO   |-> <<"Auth.verifyToken", "LivroController.remover">>,
      ATUALIZAR_LIVRO |-> <<"Auth.verifyToken", "LivroController.atualizar">> ]

\* the remove route registered without the token check
rotasEmprestimoRemoverSemAuth ==
    [ LISTAR_EMPRESTIMOS   |-> <<"Auth.verifyToken", "EmprestimoController.todos">>,
      NOVO_EMPRESTIMO      |-> <<"Auth.verifyToken", "EmprestimoController.cadastrar">>,
      ATUALIZAR_EMPRESTIMO |-> <<"Auth.verifyToken", "EmprestimoController.atualizar">>,
      REMOVER_EMPRESTIMO   |-> <<"EmprestimoController.remover">> ]

\* CRUD Emprestimo
rotasEmprestimo ==
    [ LISTAR_EMPRESTIMOS   |-> <<"Auth.verifyToken", "EmprestimoController.todos">>,
      NOVO_EMPRESTIMO      |-> <<"Auth.verifyToken", "EmprestimoController.cadastrar">>,
      ATUALIZAR_EMPRESTIMO |-> <<"Auth.verifyToken", "EmprestimoController.atualizar">>,
      REMOVER_EMPRESTIMO   |-> <<"Auth.verifyToken", "EmprestimoController.remover">> ]

\* const router = express.Router(), with every registration made on it
router == rotasPublicas @@ rotasAluno @@ rotasLivro @@ rotasEmprestimo

Routes == DOMAIN router

AlunoHandlers ==
    { "AlunoController.todos", "AlunoController.cadastrar",
      "AlunoController.remover", "AlunoController.atualizar" }

OtherEntityHandlers ==
    { "LivroController.todos", "LivroController.cadastrar",
      "LivroController.remover", "LivroController.atualizar",
      "EmprestimoController.todos", "EmprestimoController.cadastrar",
      "EmprestimoController.atualizar", "EmprestimoController.remover" }

EntityHandlers == AlunoHandlers \cup OtherEntityHandlers

----------------------------------------------------------------------------
(* Credential store and token codec *)

\* rows of the usuario table, as the Usuario class holds them
usuarios ==
    { [idUsuario |-> 1, username |-> "ana", senha |-> "s1"],
      [idUsuario |-> 2, username |-> "bia", senha |-> "s2"] }

Usernames == {"ana", "bia", "eve"}
Senhas == {"s1", "s2"}

findUserByUsername(username) == {u \in usuarios : u.username = username}

Keys == {"k1", "k2"}
SECRET == "k1"

NoToken == [none |-> TRUE]
Garbage == [raw |-> "garbage"]

\* the keyed signature of a payload (an ideal MAC: equal only for equal inputs)
Sign(payload, key) == [signed |-> payload, with |-> key]

\* the expiry is added to the payload after it was signed
IssueTokExpNaoAssinado(sub, key, t, ttl) ==
    LET base    == [sub |-> sub, iat |-> t]
        payload == IF ttl > 0
                   THEN [sub |-> sub, iat |-> t, exp |-> t + ttl]
                   ELSE base
    IN  [payload |-> payload, sig |-> Sign(base, key)]

\* issue(subject, secret): the subject and the issuance time, signed
IssueTok(sub, key, t, ttl) ==
    LET payload == IF ttl > 0
                   THEN [sub |-> sub, iat |-> t, exp |-> t + ttl]
                   ELSE [sub |-> sub, iat |-> t]
    IN  [payload |-> payload, sig |-> Sign(payload, key)]

WellFormed(tok) == DOMAIN tok = {"payload", "sig"}

Expired(tok, t) == "exp" \in DOMAIN tok.payload /\ t >= tok.payload.exp

\* the payload is decoded and its expiry read, the signature is not compared
VerifyTokSemAssinatura(tok, key, t) ==
    IF ~WellFormed(tok)
    THEN [outcome |-> "Unauthorized", kind |-> "InvalidToken"]
    ELSE IF Expired(tok, t)
    THEN [outcome |-> "Unauthorized", kind |-> "ExpiredToken"]
    ELSE [outcome |-> "Authorized", subject |-> tok.payload.sub]

\* verify(token, secret) at clock value t
VerifyTok(tok, key, t) ==
    IF ~WellFormed(tok)
    THEN [outcome |-> "Unauthorized", kind |-> "InvalidToken"]
    ELSE IF tok.sig # Sign(tok.payload, key)
    THEN [outcome |-> "Unauthorized", kind |-> "InvalidToken"]
    ELSE IF Expired(tok, t)
    THEN [outcome |-> "Unauthorized", kind |-> "ExpiredToken"]
    ELSE [outcome |-> "Authorized", subject |-> tok.payload.sub]

\* Auth Gateway.authorize: the outcome of the check for the token of a request
authorize(tok, t) ==
    IF tok = NoToken
    THEN [outcome |-> "Unauthorized", kind |-> "MissingToken"]
    ELSE VerifyTok(tok, SECRET, t)

----------------------------------------------------------------------------
(* HTTP responses *)

\* res.status(s).json({ mensagem: m })
Mensagem(status, m) == [status |-> status, body |-> [kind |-> "mensagem", text |-> m]]
\* res.status(s).json("m"): a bare JSON string
JsonString(status, m) == [status |-> status, body |-> [kind |-> "string", text |-> m]]
\* res.status(s).send("m")
SendText(status, m) == [status |-> status, body |-> [kind |-> "text", text |-> m]]
\* res.status(s).json(list)
JsonLista(status, l) == [status |-> status, body |-> [kind |-> "lista", lista |-> l]]

----------------------------------------------------------------------------
(* What the Aluno model hands back to a controller *)

Codes == {0, 1, 9, 2}

Code(n) == [kind |-> "code", code |-> n]
Lista(l) == [kind |-> "lista", lista |-> l]
Throw == [kind |-> "throw"]

----------------------------------------------------------------------------
(* AlunoController.todos *)

\* the list is dropped from the answer
todosSemLista(outcome) ==
    IF outcome.kind = "throw"
    THEN Mensagem(500, "Erro ao recuperar as informacoes do aluno. Entre em contato com o administrador do sistema para mais detalhes.")
    ELSE JsonLista(200, {})

todosA(outcome) ==
    IF outcome.kind = "throw"
    THEN Mensagem(500, "Erro ao recuperar as informacoes do aluno. Entre em contato com o administrador do sistema para mais detalhes.")
    ELSE JsonLista(200, outcome.lista)

todosB(outcome) ==
    IF outcome.kind = "throw"
    THEN Mensagem(400, "Erro ao recuperar as informacoes do aluno. Entre em contato com o administrador do sistema para mais detalhes.")
    ELSE JsonLista(200, outcome.lista)

----------------------------------------------------------------------------
(* AlunoController.cadastrar *)

CamposObrigatorios == {"nome", "sobrenome", "email", "celular"}

\* !dadosRecebidos.campo : the field is undefined or the empty string
Falsy(dados, campo) == campo \notin DOMAIN dados \/ dados[campo] = ""

\* the guard without its last operand
parametrosFaltandoSemCelular(dados) ==
    Falsy(dados, "nome") \/ Falsy(dados, "sobrenome") \/ Falsy(dados, "email")

\* the guard of the early return
parametrosFaltando(dados) ==
    Falsy(dados, "nome") \/ Falsy(dados, "sobrenome")
        \/ Falsy(dados, "email") \/ Falsy(dados, "celular")

respostaParametros == Mensagem(406, "Parametros obrigatorios nao informados.")

\* const mensagens: Record<number, { status, mensagem }>
mensagens ==
    (0 :> [status |-> 400, mensagem |-> "Erro ao cadastrar aluno. Entre em contato com o administrador do sistema para mais detalhes."])
    @@ (1 :> [status |-> 201, mensagem |-> "Aluno cadastrado com sucesso!"])
    @@ (9 :> [status |-> 406, mensagem |-> "Parametros obrigatorios nao informados."])

\* the fallback reads the wrong entry of the table
respostaPadraoTrocado(result) ==
    IF result \in DOMAIN mensagens THEN mensagens[result] ELSE mensagens[1]

\* const resposta = mensagens[result] ?? mensagens[0]
resposta(result) == IF result \in DOMAIN mensagens THEN mensagens[result] ELSE mensagens[0]

cadastrarA(outcome) ==
    IF outcome.kind = "throw"
    THEN Mensagem(500, "Erro ao cadastrar o aluno. Entre em contato com o administrador do sistema para mais detalhes.")
    ELSE Mensagem(resposta(outcome.code).status, resposta(outcome.code).mensagem)

cadastrarB(outcome) ==
    IF outcome.kind = "throw"
    THEN Mensagem(400, "Erro ao cadastrar o aluno. Entre em contato com o administrador do sistema para mais detalhes.")
    ELSE Mensagem(resposta(outcome.code).status, resposta(outcome.code).mensagem)

----------------------------------------------------------------------------
(* AlunoController.remover *)

\* the statuses of case 0 and case 1 exchanged
removerSwitchTrocado(result) ==
    CASE result = 0 -> JsonString(200, "Erro ao deletar aluno. Entre em contato com o administrador do sistema para mais detalhes.")
      [] result = 1 -> JsonString(400, "Aluno removido com sucesso.")
      [] result = 9 -> JsonString(400, "Aluno nao encontrado.")
      [] OTHER -> JsonString(400, "Erro ao deletar aluno. Entre em contato com o administrador do sistema para mais detalhes.")

\* switch (result) { case 0 / case 1 / case 9 / default }
removerSwitch(result) ==
    CASE result = 0 -> JsonString(400, "Erro ao deletar aluno. Entre em contato com o administrador do sistema para mais detalhes.")
      [] result = 1 -> JsonString(200, "Aluno removido com sucesso.")
      [] result = 9 -> JsonString(400, "Aluno nao encontrado.")
      [] OTHER -> JsonString(400, "Erro ao deletar aluno. Entre em contato com o administrador do sistema para mais detalhes.")

removerA(outcome) ==
    IF outcome.kind = "throw"
    THEN SendText(500, "Erro ao remover aluno. Entre em contato com o administrador do sistema para mais detalhes.")
    ELSE removerSwitch(outcome.code)

removerB(outcome) ==
    IF outcome.kind = "throw"
    THEN SendText(500, "error")
    ELSE removerSwitch(outcome.code)

----------------------------------------------------------------------------
(* AlunoController.atualizar *)

atualizarA(outcome) ==
    IF outcome.kind = "throw"
    THEN Mensagem(500, "Erro ao atualizar aluno. Entre em contato com o administrador do sistema para mais detalhes.")
    ELSE Mensagem(IF outcome.code = 1 THEN 200 ELSE 400,
                  IF outcome.code = 1 THEN "Aluno atualizado com sucesso!"
                                      ELSE "Erro ao atualizar aluno.")

\* switch (result) of the second revision
atualizarSwitch(result) ==
    CASE result = 0 -> Mensagem(400, "Erro ao atualizar aluno. Entre em contato com o administrador do sistema para mais detalhes.")
      [] result = 1 -> Mensagem(201, "Aluno atualizado com sucesso!")
      [] result = 9 -> Mensagem(406, "Aluno nao encontrado.")
      [] OTHER -> Mensagem(400, "Erro ao atualizar aluno. Entre em contato com o administrador do sistema para mais detalhes.")

\* the catch block answers res.json(...) without res.status(): express keeps 200
atualizarB(outcome) ==
    IF outcome.kind = "throw"
    THEN Mensagem(200, "Erro ao atualizar aluno.")
    ELSE atualizarSwitch(outcome.code)

----------------------------------------------------------------------------
(* Livro / Emprestimo controllers: the contract of the entity controllers *)

entidadeResposta(outcome) ==
    CASE outcome = "success"   -> Mensagem(200, "ok")
      [] outcome = "failure"   -> Mensagem(400, "erro")
      [] outcome = "not-found" -> Mensagem(400, "nao encontrado")
      [] OTHER                 -> Mensagem(500, "erro interno")

----------------------------------------------------------------------------
(* Requests *)

Idle == [st |-> "idle"]

\* every body over the required fields: each absent, empty or filled in
DadosTodos ==
    UNION { [campos -> {"", "ana"}] : campos \in SUBSET CamposObrigatorios }

\* the bodies sent to the create route: complete, with one field absent or
\* empty, or with no field at all
Dados ==
    { d \in DadosTodos :
        \/ DOMAIN d = {}
        \/ Cardinality({ campo \in CamposObrigatorios :
                            campo \notin DOMAIN d \/ d[campo] = "" }) <= 1 }

\* the ids the student table can hold
AlunoIds == {1, 2}

Credenciais == [username : Usernames, password : Senhas]

NoBody == [vazio |-> TRUE]

BodiesFor(route) ==
    CASE route = "LOGIN" -> Credenciais
      [] route = "NOVO_ALUNO" -> Dados
      [] OTHER -> {NoBody}

\* req.query.idAluno, already parsed; 0 is an id the table never holds
IdsFor(route) ==
    IF route \in {"REMOVER_ALUNO", "ATUALIZAR_ALUNO"} THEN AlunoIds \cup {0} ELSE {0}

\* a token signed with a key that is not the server's
ForgedTokens ==
    { IssueTok(u.username, k, now, expiresIn) : u \in usuarios, k \in Keys \ {SECRET} }

\* an issued token with one part changed
Mutations(t) ==
    { [t EXCEPT !.payload.sub = s] : s \in Usernames \ {t.payload.sub} }
    \cup { [t EXCEPT !.payload.iat = @ + 1] }
    \cup ( IF "exp" \in DOMAIN t.payload
           THEN { [t EXCEPT !.payload.exp = @ + 1] }
           ELSE {} )
    \cup { [t EXCEPT !.sig = Sign([t.payload EXCEPT !.iat = @ + 1], SECRET)] }

IssuedTokens == { p.token : p \in issued }

MutatedTokens == UNION { Mutations(t) : t \in IssuedTokens }

TokensFor(route) ==
    IF route \in {"ROOT", "LOGIN"}
    THEN {NoToken}
    ELSE {NoToken, Garbage} \cup IssuedTokens \cup ForgedTokens \cup MutatedTokens

NewReq(route, token, body, id) ==
    [ st        |-> "run",
      route     |-> route,
      token     |-> token,
      body      |-> body,
      idAluno   |-> id,
      idx       |-> 1,
      auth      |-> "none",
      kind      |-> "none",
      subject   |-> "none",
      authAt    |-> -1,
      checks    |-> 0,
      invoked   |-> <<>>,
      calls     |-> <<>>,
      result    |-> [kind |-> "none"],
      responses |-> <<>> ]

Handler(r) == router[r.route][r.idx]

Running(c, h) ==
    /\ reqs[c].st = "run"
    /\ reqs[c].idx <= Len(router[reqs[c].route])
    /\ Handler(reqs[c]) = h

\* res.status(..).json(..) / send(..): the response goes out, the handler returns
Respond(r, resp) == [r EXCEPT !.st = "done", !.responses = Append(@, resp)]

\* express calls the handler
Invoke(r, h) == [r EXCEPT !.invoked = Append(@, h)]

\* await Aluno.metodo(...) came back with outcome
Called(r, metodo, outcome) == [r EXCEPT !.calls = Append(@, metodo), !.result = outcome]

\* next(): express moves on to the following handler of the route
NextHandler(r) ==
    IF r.idx < Len(router[r.route])
    THEN [r EXCEPT !.idx = @ + 1]
    ELSE Respond(r, Mensagem(404, "Cannot " \o r.route))

----------------------------------------------------------------------------
(* Operations *)

Arrive(c) ==
    /\ reqs[c].st = "idle"
    /\ \E route \in Routes :
         \E token \in TokensFor(route), body \in BodiesFor(route), id \in IdsFor(route) :
            reqs' = [reqs EXCEPT ![c] = NewReq(route, token, body, id)]
    /\ UNCHANGED <<build, expiresIn, now, issued, alunos>>

\* router.get('/', ...)
rotaPadrao(c) ==
    /\ Running(c, "rotaPadrao")
    /\ reqs' = [reqs EXCEPT ![c] = Respond(Invoke(@, "rotaPadrao"), Mensagem(200, "Rota padrao"))]
    /\ UNCHANGED <<build, expiresIn, now, issued, alunos>>

\* the token under check is kept in one place for every request in service
verifyTokenCompartilhado(c) ==
    /\ Running(c, "Auth.verifyToken")
    /\ \E d \in {e \in DOMAIN reqs : reqs[e].st # "idle"} :
        LET r == [reqs[c] EXCEPT !.checks = @ + 1, !.authAt = now]
            v == authorize(reqs[d].token, now)
        IN  reqs' = [reqs EXCEPT ![c] =
               IF v.outcome = "Unauthorized"
               THEN Respond([r EXCEPT !.auth = "Unauthorized", !.kind = v.kind],
                            Mensagem(401, IF v.kind = "MissingToken"
                                          THEN "Token nao informado"
                                          ELSE "Token invalido"))
               ELSE NextHandler([r EXCEPT !.auth = "Authorized", !.subject = v.subject])]
    /\ UNCHANGED <<build, expiresIn, now, issued, alunos>>

\* Auth.verifyToken: the authorization check in front of a protected route
verifyToken(c) ==
    /\ Running(c, "Auth.verifyToken")
    /\ LET r == [reqs[c] EXCEPT !.checks = @ + 1, !.authAt = now]
           v == authorize(r.token, now)
       IN  reqs' = [reqs EXCEPT ![c] =
              IF v.outcome = "Unauthorized"
              THEN Respond([r EXCEPT !.auth = "Unauthorized", !.kind = v.kind],
                           Mensagem(401, IF v.kind = "MissingToken"
                                         THEN "Token nao informado"
                                         ELSE "Token invalido"))
              ELSE NextHandler([r EXCEPT !.auth = "Authorized", !.subject = v.subject])]
    /\ UNCHANGED <<build, expiresIn, now, issued, alunos>>

\* Auth.validacaoUsuario: a login attempt
validacaoUsuario(c) ==
    /\ Running(c, "Auth.validacaoUsuario")
    /\ LET r     == Invoke(reqs[c], "Auth.validacaoUsuario")
           found == findUserByUsername(r.body.username)
           tok   == IssueTok(r.body.username, SECRET, now, expiresIn)
       IN  \E storeUp \in BOOLEAN :
             IF ~storeUp
             THEN /\ reqs' = [reqs EXCEPT ![c] =
                        Respond([r EXCEPT !.kind = "StoreUnavailable"],
                                Mensagem(500, "Erro interno do servidor"))]
                  /\ issued' = issued
             ELSE IF found = {}
             THEN /\ reqs' = [reqs EXCEPT ![c] =
                        Respond([r EXCEPT !.auth = "Unauthorized", !.kind = "UnknownUser"],
                                Mensagem(401, "Usuario e/ou senha incorretos"))]
                  /\ issued' = issued
             ELSE IF \A u \in found : u.senha # r.body.password
             THEN /\ reqs' = [reqs EXCEPT ![c] =
                        Respond([r EXCEPT !.auth = "Unauthorized", !.kind = "InvalidCredential"],
                                Mensagem(401, "Usuario e/ou senha incorretos"))]
                  /\ issued' = issued
             ELSE /\ issued' = issued \cup {[token |-> tok, sub |-> r.body.username]}
                  /\ Cardinality(issued') <= MaxIssued
                  /\ reqs' = [reqs EXCEPT ![c] =
                        Respond([r EXCEPT !.auth = "Authorized", !.subject = r.body.username],
                                [status |-> 200, body |-> [kind |-> "token", token |-> tok]])]
    /\ UNCHANGED <<build, expiresIn, now, alunos>>

\* AlunoController.todos
todos(c) ==
    /\ Running(c, "AlunoController.todos")
    /\ \E outcome \in {Lista(alunos), Throw} :
         LET r == Called(Invoke(reqs[c], "AlunoController.todos"), "listarAlunos", outcome)
         IN  reqs' = [reqs EXCEPT ![c] =
                Respond(r, IF build = "A" THEN todosA(outcome) ELSE todosB(outcome))]
    /\ UNCHANGED <<build, expiresIn, now, issued, alunos>>

\* the early 406 is sent without return: the handler goes on to the model call
\* and answers a second time
cadastrarSemReturn(c) ==
    /\ Running(c, "AlunoController.cadastrar")
    /\ LET r0 == Invoke(reqs[c], "AlunoController.cadastrar")
           r  == IF parametrosFaltando(r0.body) THEN Respond(r0, respostaParametros) ELSE r0
       IN  \E outcome \in {Code(n) : n \in Codes} \cup {Throw} :
              /\ outcome = Code(1) => alunos # AlunoIds
              /\ alunos' = IF outcome = Code(1)
                           THEN alunos \cup {CHOOSE i \in AlunoIds \ alunos :
                                                \A j \in AlunoIds \ alunos : i <= j}
                           ELSE alunos
              /\ reqs' = [reqs EXCEPT ![c] =
                    Respond(Called(r, "cadastrarAluno", outcome),
                            IF build = "A" THEN cadastrarA(outcome) ELSE cadastrarB(outcome))]
    /\ UNCHANGED <<build, expiresIn, now, issued>>

\* AlunoController.cadastrar
cadastrar(c) ==
    /\ Running(c, "AlunoController.cadastrar")
    /\ LET r == Invoke(reqs[c], "AlunoController.cadastrar")
       IN  IF parametrosFaltando(r.body)
           THEN /\ reqs' = [reqs EXCEPT ![c] = Respond(r, respostaParametros)]
                /\ alunos' = alunos
           ELSE \E outcome \in {Code(n) : n \in Codes} \cup {Throw} :
                  /\ outcome = Code(1) => alunos # AlunoIds
                  /\ alunos' = IF outcome = Code(1)
                               THEN alunos \cup {CHOOSE i \in AlunoIds \ alunos :
                                                    \A j \in AlunoIds \ alunos : i <= j}
                               ELSE alunos
                  /\ reqs' = [reqs EXCEPT ![c] =
                        Respond(Called(r, "cadastrarAluno", outcome),
                                IF build = "A" THEN cadastrarA(outcome) ELSE cadastrarB(outcome))]
    /\ UNCHANGED <<build, expiresIn, now, issued>>

\* AlunoController.remover
remover(c) ==
    /\ Running(c, "AlunoController.remover")
    /\ \E outcome \in {Code(n) : n \in Codes} \cup {Throw} :
         LET r == Called(Invoke(reqs[c], "AlunoController.remover"), "removerAluno", outcome)
         IN  /\ outcome = Code(1) => r.idAluno \in alunos
             /\ alunos' = IF outcome = Code(1) THEN alunos \ {r.idAluno} ELSE alunos
             /\ reqs' = [reqs EXCEPT ![c] =
                   Respond(r, IF build = "A" THEN removerA(outcome) ELSE removerB(outcome))]
    /\ UNCHANGED <<build, expiresIn, now, issued>>

\* AlunoController.atualizar
atualizar(c) ==
    /\ Running(c, "AlunoController.atualizar")
    /\ \E outcome \in {Code(n) : n \in Codes} \cup {Throw} :
         LET r == Called(Invoke(reqs[c], "AlunoController.atualizar"), "atualizarAluno", outcome)
         IN  /\ outcome = Code(1) => r.idAluno \in alunos
             /\ reqs' = [reqs EXCEPT ![c] =
                   Respond(r, IF build = "A" THEN atualizarA(outcome) ELSE atualizarB(outcome))]
    /\ UNCHANGED <<build, expiresIn, now, issued, alunos>>

\* LivroController.* / EmprestimoController.*
entidade(c) ==
    /\ reqs[c].st = "run"
    /\ reqs[c].idx <= Len(router[reqs[c].route])
    /\ Handler(reqs[c]) \in OtherEntityHandlers
    /\ \E outcome \in {"success", "failure", "not-found", "store-unavailable"} :
         reqs' = [reqs EXCEPT ![c] =
            Respond(Invoke(@, Handler(reqs[c])), entidadeResposta(outcome))]
    /\ UNCHANGED <<build, expiresIn, now, issued, alunos>>

\* the connection is closed and can carry the next request
Retire(c) ==
    /\ reqs[c].st = "done"
    /\ reqs' = [reqs EXCEPT ![c] = Idle]
    /\ UNCHANGED <<build, expiresIn, now, issued, alunos>>

Tick ==
    /\ now < MaxClock
    /\ now' = now + 1
    /\ UNCHANGED <<build, expiresIn, issued, alunos, reqs>>

----------------------------------------------------------------------------
(* Specifications *)

Conns == {"c1"}

Init ==
    /\ build \in {"A", "B"}
    /\ expiresIn \in {0, TokenTTL}
    /\ now = 0
    /\ issued = {}
    /\ alunos = {1}
    /\ reqs = [c \in Conns |-> Idle]

Next ==
    \/ Tick
    \/ \E c \in DOMAIN reqs : Arrive(c)
    \/ \E c \in DOMAIN reqs : rotaPadrao(c)
    \/ \E c \in DOMAIN reqs : verifyToken(c)
    \/ \E c \in DOMAIN reqs : validacaoUsuario(c)
    \/ \E c \in DOMAIN reqs : todos(c)
    \/ \E c \in DOMAIN reqs : cadastrar(c)
    \/ \E c \in DOMAIN reqs : remover(c)
    \/ \E c \in DOMAIN reqs : atualizar(c)
    \/ \E c \in DOMAIN reqs : entidade(c)
    \/ \E c \in DOMAIN reqs : Retire(c)

Spec == Init /\ [][Next]_vars

----------------------------------------------------------------------------
(* Two connections served at once, on the login and student routes *)

ConnsConc == {"c1", "c2"}

RoutesConc ==
    {"LOGIN", "LISTAR_ALUNOS", "NOVO_ALUNO", "REMOVER_ALUNO", "ATUALIZAR_ALUNO"}

DadosCompletos == [CamposObrigatorios -> {"ana"}]

ArriveConc(c) ==
    /\ reqs[c].st = "idle"
    /\ \E route \in RoutesConc :
         \E token \in IF route = "LOGIN" THEN {NoToken} ELSE {NoToken} \cup IssuedTokens,
            body \in CASE route = "LOGIN" -> [username : {"ana"}, password : Senhas]
                       [] route = "NOVO_ALUNO" -> DadosCompletos
                       [] OTHER -> {NoBody},
            id \in IF route \in {"REMOVER_ALUNO", "ATUALIZAR_ALUNO"} THEN {1} ELSE {0} :
            reqs' = [reqs EXCEPT ![c] = NewReq(route, token, body, id)]
    /\ UNCHANGED <<build, expiresIn, now, issued, alunos>>

InitConc ==
    /\ build \in {"A", "B"}
    /\ expiresIn = TokenTTL
    /\ now = 0
    /\ issued = {}
    /\ alunos = {1}
    /\ reqs = [c \in ConnsConc |-> Idle]

NextConc ==
    \/ Tick
    \/ \E c \in DOMAIN reqs : ArriveConc(c)
    \/ \E c \in DOMAIN reqs : verifyToken(c)
    \/ \E c \in DOMAIN reqs : validacaoUsuario(c)
    \/ \E c \in DOMAIN reqs : todos(c)
    \/ \E c \in DOMAIN reqs : cadastrar(c)
    \/ \E c \in DOMAIN reqs : remover(c)
    \/ \E c \in DOMAIN reqs : atualizar(c)
    \/ \E c \in DOMAIN reqs : Retire(c)

SpecConc == InitConc /\ [][NextConc]_vars

----------------------------------------------------------------------------
(* Vocabulary of the properties *)

\* the requests in service
Live == { c \in DOMAIN reqs : reqs[c].st # "idle" }

\* the Student, Book and Loan routes
ProtectedRoutes == Routes \ {"ROOT", "LOGIN"}

Occurs(h, seq) == \E i \in 1..Len(seq) : seq[i] = h

\* the token carries the server's signature over its own payload
SignedByServer(tok) == WellFormed(tok) /\ tok.sig = Sign(tok.payload, SECRET)

\* the request carries no token, or one that is invalid or was expired when checked
BadToken(r) ==
    \/ r.token = NoToken
    \/ ~SignedByServer(r.token)
    \/ r.checks > 0 /\ Expired(r.token, r.authAt)

\* the request carries a token of the server that is (or was, when checked) in date
GoodToken(r) ==
    /\ SignedByServer(r.token)
    /\ ~Expired(r.token, IF r.checks > 0 THEN r.authAt ELSE now)

ErrorMessage(resp) == resp.body.kind = "mensagem" /\ resp.body.text # ""

----------------------------------------------------------------------------
(* C1 *)

\* every registration of an entity handler has the token check before it, and
\* the 12 entity handlers are the last handlers of the 12 protected routes
RegistrationsGuarded ==
    /\ \A route \in Routes : \A i \in 1..Len(router[route]) :
          router[route][i] \in EntityHandlers
             => \E j \in 1..(i - 1) : router[route][j] = "Auth.verifyToken"
    /\ EntityHandlers = { router[route][Len(router[route])] : route \in ProtectedRoutes }

\* C1: on every Student, Book and Loan route the controller handler is invoked
\* for a request only after Auth.verifyToken ran on that request and ended in
\* Authorized; no registration reaches one of the 12 entity handlers without
\* the check in front of it.
C1_AuthBeforeEntityHandler ==
    /\ RegistrationsGuarded
    /\ \A c \in Live : \A h \in EntityHandlers :
          Occurs(h, reqs[c].invoked)
             => reqs[c].checks >= 1 /\ reqs[c].auth = "Authorized"

C1_Witness ==
    \E c \in Live :
        /\ reqs[c].route = "REMOVER_EMPRESTIMO"
        /\ reqs[c].invoked = <<"EmprestimoController.remover">>
        /\ reqs[c].auth = "Authorized"
        /\ reqs[c].checks = 1

----------------------------------------------------------------------------
(* C2 *)

\* C2: a request to a protected route whose token is missing, invalid or
\* expired ends the check in Unauthorized, is answered at once with a single
\* 401 response carrying an error message, never reaches the controller, and
\* is checked once only.
C2_BadTokenRejected ==
    \A c \in Live :
        LET r == reqs[c] IN
        (r.route \in ProtectedRoutes /\ BadToken(r)) =>
            /\ r.invoked = <<>>
            /\ r.calls = <<>>
            /\ r.checks <= 1
            /\ r.st = "done" => r.checks = 1
            /\ r.checks = 1 =>
                  /\ r.st = "done"
                  /\ r.auth = "Unauthorized"
                  /\ Len(r.responses) = 1
                  /\ r.responses[1].status = 401
                  /\ ErrorMessage(r.responses[1])

C2_Witness ==
    \E c \in Live :
        /\ reqs[c].route = "LISTAR_ALUNOS"
        /\ SignedByServer(reqs[c].token)
        /\ reqs[c].checks = 1
        /\ Expired(reqs[c].token, reqs[c].authAt)
        /\ reqs[c].kind = "ExpiredToken"
        /\ reqs[c].st = "done"
        /\ reqs[c].responses[1].status = 401

----------------------------------------------------------------------------
(* C3 *)

\* C3: a request to the student list route with a valid token is Authorized,
\* AlunoController.todos is invoked exactly once for it, and when
\* Aluno.listarAlunos succeeds the answer is 200 with the list it returned.
C3_ListWithValidToken ==
    \A c \in Live :
        LET r == reqs[c] IN
        (r.route = "LISTAR_ALUNOS" /\ r.st = "done" /\ GoodToken(r)) =>
            /\ r.auth = "Authorized"
            /\ r.checks = 1
            /\ r.invoked = <<"AlunoController.todos">>
            /\ r.calls = <<"listarAlunos">>
            /\ r.result.kind = "lista" =>
                  r.responses = <<JsonLista(200, r.result.lista)>>

C3_Witness ==
    \E c \in Live :
        /\ reqs[c].route = "LISTAR_ALUNOS"
        /\ reqs[c].st = "done"
        /\ GoodToken(reqs[c])
        /\ reqs[c].invoked = <<"AlunoController.todos">>
        /\ alunos # {}
        /\ reqs[c].responses = <<JsonLista(200, alunos)>>

----------------------------------------------------------------------------
(* C4 *)

Matches(cred) == \E u \in usuarios : u.username = cred.username /\ u.senha = cred.password
Known(cred) == \E u \in usuarios : u.username = cred.username

\* C4: a login attempt ends in exactly one outcome fixed by the credential
\* store: no-such-user for an unknown username, bad-credential for a known
\* user with another password, Authorized with a token on a match; a token is
\* handed out on a match only, and the login route is not behind the token check.
C4_LoginOutcome ==
    /\ \A p \in issued : \E u \in usuarios : u.username = p.sub
    /\ \A c \in Live :
        LET r == reqs[c] IN
        (r.route = "LOGIN" /\ r.st = "done") =>
            /\ r.checks = 0
            /\ r.invoked = <<"Auth.validacaoUsuario">>
            /\ Len(r.responses) = 1
            /\ r.responses[1].body.kind = "token" =>
                  /\ Matches(r.body)
                  /\ [token |-> r.responses[1].body.token, sub |-> r.body.username] \in issued
            /\ r.kind # "StoreUnavailable" =>
                  /\ ~Known(r.body) =>
                        /\ r.auth = "Unauthorized" /\ r.kind = "UnknownUser"
                        /\ r.responses[1].body.kind # "token"
                  /\ (Known(r.body) /\ ~Matches(r.body)) =>
                        /\ r.auth = "Unauthorized" /\ r.kind = "InvalidCredential"
                        /\ r.responses[1].body.kind # "token"
                  /\ Matches(r.body) =>
                        /\ r.auth = "Authorized"
                        /\ r.responses[1].body.kind = "token"

C4_Witness ==
    \E c \in Live :
        /\ reqs[c].route = "LOGIN"
        /\ reqs[c].st = "done"
        /\ reqs[c].token = NoToken
        /\ Matches(reqs[c].body)
        /\ reqs[c].auth = "Authorized"
        /\ reqs[c].responses[1].body.kind = "token"

----------------------------------------------------------------------------
(* C5 *)

Authorized(sub) == [outcome |-> "Authorized", subject |-> sub]

\* C5 as stated: verify(issue(subject, secret), secret) is Authorized(subject)
\* for every subject and secret, so a token handed out by a successful login
\* is accepted by verify, and no token verifies as two distinct subjects.
C5_RoundTripAlways ==
    /\ \A sub \in Usernames, k \in Keys :
          VerifyTok(IssueTok(sub, k, now, expiresIn), k, now) = Authorized(sub)
    /\ \A p \in issued : VerifyTok(p.token, SECRET, now) = Authorized(p.sub)
    /\ \A p, q \in issued : p.token = q.token => p.sub = q.sub

\* issue then verify under the same secret, at every pair of clock values and
\* for both expiry policies: Authorized with the subject issued for unless the
\* token has expired; and two tokens issued for distinct subjects differ
RoundTripOfCodec ==
    /\ \A sub \in Usernames, k \in Keys, ttl \in {0, TokenTTL} :
          \A t \in 0..MaxClock : \A t2 \in t..MaxClock :
             LET tok == IssueTok(sub, k, t, ttl) IN
             ~Expired(tok, t2) => VerifyTok(tok, k, t2) = Authorized(sub)
    /\ \A s1, s2 \in Usernames, k \in Keys, ttl \in {0, TokenTTL} :
          \A t1, t2 \in 0..MaxClock :
             IssueTok(s1, k, t1, ttl) = IssueTok(s2, k, t2, ttl) => s1 = s2

\* C5 (amended): verify(issue(subject, secret), secret) is Authorized(subject)
\* for every subject and secret as long as the token has not expired, so a
\* token handed out by a successful login is accepted by verify until it
\* expires, with the subject it was issued for; no token verifies as two
\* distinct subjects.
C5_RoundTripUntilExpiry ==
    /\ RoundTripOfCodec
    /\ \A p \in issued :
          ~Expired(p.token, now) => VerifyTok(p.token, SECRET, now) = Authorized(p.sub)
    /\ \A p, q \in issued : p.token = q.token => p.sub = q.sub
    /\ \A c \in Live : \A p \in issued :
          LET r == reqs[c] IN
          (r.checks > 0 /\ r.token = p.token) =>
              /\ ~Expired(r.token, r.authAt) => r.auth = "Authorized"
              /\ r.auth = "Authorized" => r.subject = p.sub

C5_Witness ==
    \E c \in Live : \E p \in issued :
        /\ reqs[c].route \in ProtectedRoutes
        /\ reqs[c].token = p.token
        /\ reqs[c].checks = 1
        /\ reqs[c].auth = "Authorized"
        /\ reqs[c].subject = p.sub
        /\ "exp" \in DOMAIN p.token.payload

----------------------------------------------------------------------------
(* C6 *)

SignedByOtherKey(tok) ==
    WellFormed(tok) /\ \E k \in Keys \ {SECRET} : tok.sig = Sign(tok.payload, k)

\* a token issued under one secret is rejected under every other secret
OtherSecretRejected ==
    \A sub \in Usernames, k1 \in Keys, k2 \in Keys, ttl \in {0, TokenTTL} :
       \A t \in 0..MaxClock : \A t2 \in t..MaxClock :
          k1 # k2 => VerifyTok(IssueTok(sub, k1, t, ttl), k2, t2).outcome = "Unauthorized"

\* C6: a token issued under a secret other than the one used to verify, and
\* a token obtained by changing a part of an issued token, is never verified
\* as Authorized, for any subject.
C6_ForgedOrMutatedRejected ==
    /\ OtherSecretRejected
    /\ \A tok \in ForgedTokens \cup MutatedTokens :
          VerifyTok(tok, SECRET, now).outcome = "Unauthorized"
    /\ \A c \in Live :
          LET r == reqs[c] IN
          (r.checks > 0 /\ (SignedByOtherKey(r.token) \/ r.token \in MutatedTokens)) =>
              /\ r.auth = "Unauthorized"
              /\ r.subject = "none"
              /\ r.invoked = <<>>

C6_Witness ==
    \E c \in Live :
        /\ reqs[c].token \in MutatedTokens
        /\ reqs[c].checks = 1
        /\ reqs[c].auth = "Unauthorized"
        /\ reqs[c].kind = "InvalidToken"
        /\ reqs[c].st = "done"

----------------------------------------------------------------------------
(* C7 *)

WriteHandlers ==
    {"AlunoController.cadastrar", "AlunoController.remover", "AlunoController.atualizar"}

\* the request was answered by a create, update or remove handler from one of
\* the result codes 0, 1, 9
AnsweredFromCode(r) ==
    /\ r.st = "done"
    /\ Len(r.invoked) = 1
    /\ r.invoked[1] \in WriteHandlers
    /\ r.result.kind = "code"
    /\ r.result.code \in {0, 1, 9}

\* C7: in the create, update and remove handlers of the student controller
\* the result code of the model fixes the response: 1 gives a 2xx status, 0 and
\* 9 give a 4xx status, and one (operation, code) pair always gives the same
\* message.
C7_CodeFixesResponse ==
    /\ \A c \in Live :
          LET r == reqs[c] IN
          AnsweredFromCode(r) =>
              /\ Len(r.responses) = 1
              /\ r.result.code = 1 =>
                    (r.responses[1].status >= 200 /\ r.responses[1].status <= 299)
              /\ r.result.code \in {0, 9} =>
                    (r.responses[1].status >= 400 /\ r.responses[1].status <= 499)
    /\ \A c, d \in Live :
          ( /\ AnsweredFromCode(reqs[c]) /\ AnsweredFromCode(reqs[d])
            /\ reqs[c].invoked = reqs[d].invoked
            /\ reqs[c].result.code = reqs[d].result.code )
          => reqs[c].responses = reqs[d].responses

C7_Witness ==
    \E c, d \in Live :
        /\ c # d
        /\ AnsweredFromCode(reqs[c]) /\ AnsweredFromCode(reqs[d])
        /\ reqs[c].invoked = <<"AlunoController.remover">>
        /\ reqs[d].invoked = <<"AlunoController.remover">>
        /\ reqs[c].result.code = 1
        /\ reqs[d].result.code = 1
        /\ reqs[c].responses[1].status = 200
        /\ reqs[c].responses = reqs[d].responses

----------------------------------------------------------------------------
(* C8 *)

\* C8: when the model call made by a handler of the student controller throws
\* or rejects, the request is answered with a 5xx status, never with a 2xx or
\* a 4xx one.
C8_StoreFailureIs500 ==
    \A c \in Live :
        LET r == reqs[c] IN
        ( /\ r.st = "done"
          /\ Len(r.invoked) = 1
          /\ r.invoked[1] \in AlunoHandlers
          /\ r.result.kind = "throw" )
        => /\ Len(r.responses) = 1
           /\ r.responses[1].status >= 500
           /\ r.responses[1].status <= 599

----------------------------------------------------------------------------
(* C9 *)

Outcome(r) ==
    IF r.auth = "Authorized"
    THEN [outcome |-> "Authorized", subject |-> r.subject]
    ELSE [outcome |-> r.auth, kind |-> r.kind]

----------------------------------------------------------------------------
(* C10 *)

\* one of nome, sobrenome, email, celular is absent from the body or empty
CampoAusenteOuVazio(dados) ==
    \E campo \in CamposObrigatorios : campo \notin DOMAIN dados \/ dados[campo] = ""

\* the guard of the early return is true of exactly the bodies with a required
\* field absent or empty
GuardaCobreCampos ==
    \A d \in DadosTodos : parametrosFaltando(d) <=> CampoAusenteOuVazio(d)

\* C10: AlunoController.cadastrar answers 406 with 'Parametros obrigatorios
\* nao informados.' and never calls Aluno.cadastrarAluno when one of nome,
\* sobrenome, email, celular is missing or empty; the model is called only
\* when the four are present.
C10_RequiredFields ==
    /\ GuardaCobreCampos
    /\ \A c \in Live :
        LET r == reqs[c] IN
        Occurs("AlunoController.cadastrar", r.invoked) =>
            /\ CampoAusenteOuVazio(r.body) =>
                  /\ r.responses = <<Mensagem(406, "Parametros obrigatorios nao informados.")>>
                  /\ r.calls = <<>>
                  /\ r.result.kind = "none"
            /\ r.calls # <<>> =>
                  /\ r.calls = <<"cadastrarAluno">>
                  /\ \A campo \in CamposObrigatorios :
                        campo \in DOMAIN r.body /\ r.body[campo] # ""

C10_Witness ==
    \E c \in Live :
        /\ reqs[c].invoked = <<"AlunoController.cadastrar">>
        /\ DOMAIN reqs[c].body = {"nome", "sobrenome", "email"}
        /\ \A campo \in DOMAIN reqs[c].body : reqs[c].body[campo] = "ana"
        /\ reqs[c].st = "done"
        /\ reqs[c].responses[1].status = 406
        /\ reqs[c].calls = <<>>

----------------------------------------------------------------------------
(* C11 *)

RespostaDoCodigo0 ==
    Mensagem(400, "Erro ao cadastrar aluno. Entre em contato com o administrador do sistema para mais detalhes.")

\* result codes outside the table of AlunoController.cadastrar
CodigosDesconhecidos == (-1..10) \ {0, 1, 9}

\* the table lookup gives an unknown code the entry of code 0, and 201 to code 1 only
RespostaPadraoDoCodigo0 ==
    /\ \A n \in CodigosDesconhecidos : resposta(n) = resposta(0)
    /\ \A n \in -1..10 : resposta(n).status = 201 <=> n = 1

\* C11: in AlunoController.cadastrar a result code of Aluno.cadastrarAluno
\* other than 0, 1 and 9 gets the response of code 0 (400 with the generic
\* registration-error message), and 201 is answered for code 1 only.
C11_UnknownCodeAsCode0 ==
    /\ RespostaPadraoDoCodigo0
    /\ \A c \in Live :
          LET r == reqs[c] IN
          (r.st = "done" /\ r.invoked = <<"AlunoController.cadastrar">>) =>
              /\ (r.result.kind = "code" /\ r.result.code \notin {0, 1, 9}) =>
                    r.responses = <<RespostaDoCodigo0>>
              /\ (r.result.kind = "code" /\ r.result.code = 0) =>
                    r.responses = <<RespostaDoCodigo0>>
              /\ (\E i \in 1..Len(r.responses) : r.responses[i].status = 201) =>
                    (r.result.kind = "code" /\ r.result.code = 1)

C11_Witness ==
    \E c \in Live :
        /\ reqs[c].st = "done"
        /\ reqs[c].invoked = <<"AlunoController.cadastrar">>
        /\ reqs[c].result = Code(2)
        /\ reqs[c].responses = <<RespostaDoCodigo0>>

----------------------------------------------------------------------------
(* C12 *)

\* C12: an invocation of a handler of the student controller (todos,
\* cadastrar, remover, atualizar) sends exactly one response and ends, on
\* every path: the early rejection of cadastrar, every result code of the
\* model, and a thrown exception; no request ever has two responses.
C12_ExactlyOneResponse ==
    \A c \in Live :
        LET r == reqs[c] IN
        /\ Len(r.responses) <= 1
        /\ (\E h \in AlunoHandlers : Occurs(h, r.invoked)) =>
              /\ Len(r.invoked) = 1
              /\ r.st = "done"
              /\ Len(r.responses) = 1
              /\ Len(r.calls) <= 1
              /\ r.calls = <<>> =>
                    (r.invoked[1] = "AlunoController.cadastrar" /\ r.result.kind = "none")

C12_Witness ==
    \E c \in Live :
        /\ reqs[c].invoked = <<"AlunoController.atualizar">>
        /\ reqs[c].result = Throw
        /\ reqs[c].st = "done"
        /\ Len(reqs[c].responses) = 1

====
